---- MODULE Spec2Model ----
(***************************************************************************)
(* State-machine model of the learning script agent                        *)
(* (src/v2/ai_script_agent_learning.py): the SQLite attempt log            *)
(* "solutions", the retrieval query, and one interactive process running   *)
(* main() -> handle_command().                                             *)
(*                                                                         *)
(* The store-less agent (src/v1/ai_script_agent_whisper.py) is a second    *)
(* program with the same prompts; its process starts from InitWhisper.     *)
(* The learning agent of v1 (src/v1/ai_script_agent_learning.py) is a      *)
(* third, specified by SpecV1: a store without the verification columns    *)
(* and a generation step of its own.                                       *)
(*                                                                         *)
(* Text is a sequence of one-character strings, with the code-fence marker *)
(* (three backquotes) written as the one element "fence" and the language  *)
(* tag as the one element "applescript";                                   *)
(* an Optional value is the empty tuple (None / SQL NULL) or a one-element *)
(* tuple <<v>>.                                                            *)
(***************************************************************************)
EXTENDS Integers, Sequences, FiniteSets, TLC

\* ---------------------------------------------------------------- bounds
MaxAttempts == 2     \* rows the log may hold before no new session starts

\* ------------------------------------------------------- optional values
None == <<>>
Some(v) == <<v>>
IsNone(o) == Len(o) = 0
Val(o) == o[1]

\* ------------------------------------------------------ text operations
\* str.lower() on one character
LowerCh(ch) ==
  CASE ch = "A" -> "a"
    [] ch = "E" -> "e"
    [] ch = "I" -> "i"
    [] ch = "K" -> "k"
    [] ch = "P" -> "p"
    [] ch = "Q" -> "q"
    [] ch = "S" -> "s"
    [] ch = "T" -> "t"
    [] ch = "U" -> "u"
    [] ch = "Y" -> "y"
    [] OTHER -> ch

\* str.lower()
Lower(s) == [i \in 1..Len(s) |-> LowerCh(s[i])]

IsSpace(ch) == ch \in {" ", "\n", "\t"}

RECURSIVE LStrip(_)
LStrip(s) == IF s # <<>> /\ IsSpace(Head(s)) THEN LStrip(Tail(s)) ELSE s

RECURSIVE RStrip(_)
RStrip(s) ==
  IF s # <<>> /\ IsSpace(s[Len(s)]) THEN RStrip(SubSeq(s, 1, Len(s) - 1)) ELSE s

\* str.strip()
Strip(s) == RStrip(LStrip(s))

\* str.replace(pat, ""): every occurrence of pat, left to right, is removed
RECURSIVE Remove(_, _)
Remove(s, pat) ==
  IF Len(s) < Len(pat) THEN s
  ELSE IF SubSeq(s, 1, Len(pat)) = pat
       THEN Remove(SubSeq(s, Len(pat) + 1, Len(s)), pat)
       ELSE <<Head(s)>> \o Remove(Tail(s), pat)

\* pat in s
RECURSIVE Contains(_, _)
Contains(s, pat) ==
  IF Len(s) < Len(pat) THEN FALSE
  ELSE SubSeq(s, 1, Len(pat)) = pat \/ Contains(Tail(s), pat)

\* the answers ["yes", "y"] of lines 169 and 180
Affirmative == { <<"y", "e", "s">>, <<"y">> }

\* -------------------------------------------------- inputs (environment)
\* command texts the human types or the transcription returns
Commands == { <<"a">>, <<"A">> }

\* raw lines typed at the mode prompt
ModeInputs ==
  { <<"q", "u", "i", "t">>, <<" ", "Q", "u", "i", "t", " ">>,
    <<"s", "p", "e", "a", "k">>, <<"t", "y", "p", "e">>, <<"x">> }

\* raw lines typed at the yes/no prompts
Answers == { <<" ", "Y", "E", "S", " ">>, <<"n", "o">>, <<>> }

\* raw lines typed at the feedback prompt
FeedbackInputs == { <<" ", "w", " ">>, <<>> }

\* message.content values the generation collaborator returns: a bare
\* script, a script inside code fences, blanks only
Responses == { <<"s">>, <<" ", "fence", "t", "fence", "\n">>, <<" ">> }

\* message.content values with markdown fences, as the store-less agent's
\* prompt anticipates
FencedResponses == { <<"fence", "applescript", "\n", "s", "\n", "fence">> }

\* execute_applescript line 149: the text looked for in stderr, written as
\* one element
PermissionSignature == << "Not authorised to send Apple events" >>

\* stderr texts of a non-zero osascript exit, and str(e) of a launch failure
Stderrs == { <<>>, << "Not authorised to send Apple events", "\n" >> }
LaunchErrors == { <<"x">> }

\* ------------------------------------------------------------- variables
VARIABLES
  store,                \* rows of table solutions, in rowid order
  clock,                \* wall clock in seconds
  pc,                   \* position of the process in main()/handle_command()
  enable_verification,  \* self.enable_verification
  command,              \* handle_command: command
  previous_solution,    \* generate_applescript: previous_solution
  script,               \* handle_command: script
  approval,             \* handle_command: approval
  success,              \* handle_command: success
  error_message,        \* handle_command: error_message
  verified_success,     \* handle_command: verified_success
  feedback,             \* handle_command: feedback
  ret,                  \* value returned by the last handle_command
  typed,                \* last raw line read by input()
  trace,                \* calls made by the current session, in order
  store_at_start,       \* the store when the current session started
  schema,               \* the table solutions on disk: "absent", "v1", "v2"
  prompt,               \* messages handed to the generation collaborator
  printed,              \* messages printed in the current turn of the loop
  turn                  \* how the current turn of the loop went so far

vars == << store, clock, pc, enable_verification, command, previous_solution,
           script, approval, success, error_message, verified_success, feedback, ret,
           typed, trace, store_at_start, schema, prompt, printed, turn >>

locals == << command, previous_solution, script, approval, success, error_message,
             verified_success, feedback >>

\* ------------------------------------------------------------ the store
\* Python bool bound to a BOOLEAN column is stored as integer 1 / 0
SqlBool(b) == IF b THEN 1 ELSE 0
SqlOptBool(o) == IF IsNone(o) THEN None ELSE Some(SqlBool(Val(o)))

\* id INTEGER PRIMARY KEY AUTOINCREMENT
NextId(st) == IF st = <<>> THEN 1 ELSE st[Len(st)].id + 1

\* variant: DROP TABLE IF EXISTS solutions; CREATE TABLE solutions (...)
setup_database_recreate(sch, st) == << "v2", <<>> >>

\* CREATE TABLE IF NOT EXISTS solutions (...): the table and its rows after
\* the call
setup_database(sch, st) ==
  IF sch = "absent" THEN << "v2", <<>> >> ELSE << sch, st >>

\* the SELECT of find_successful_solution and the INSERT of save_solution
\* name the columns verified_success and feedback: sqlite3 prepares them
\* only on the table v2 created, and raises OperationalError on v1's
HasColumns(sch) == sch = "v2"

\* variant: the query without the verified_success condition
WhereSuccessOnly(row, c) ==
  /\ row.command = c
  /\ row.success = 1

\* WHERE command = ? AND success = 1
\*   AND (verified_success = 1 OR verified_success IS NULL)
Where(row, c) ==
  /\ row.command = c
  /\ row.success = 1
  /\ (row.verified_success = Some(1) \/ IsNone(row.verified_success))

\* ORDER BY timestamp DESC LIMIT 1: the rows that may come first; the order
\* of rows with equal timestamps is left open by the query.
FirstByTimestampDesc(st, c) ==
  { i \in DOMAIN st :
      /\ Where(st[i], c)
      /\ \A j \in DOMAIN st : Where(st[j], c) => st[j].timestamp <= st[i].timestamp }

\* the rows fetchone() may deliver
Selected(st, c) == FirstByTimestampDesc(st, c)

\* find_successful_solution: result[0] if result else None
find_successful_solution(st, c) ==
  IF Selected(st, c) = {} THEN { None }
  ELSE { Some(st[i].applescript) : i \in Selected(st, c) }

\* variant: an upsert keyed by command, overwriting the command's older row
save_solution_upsert(st, now, c, s, suc, ver, err, fb) ==
  LET row == [ id |-> NextId(st), command |-> c, applescript |-> s,
               success |-> SqlBool(suc), verified_success |-> SqlOptBool(ver),
               error_message |-> err, feedback |-> fb, timestamp |-> now ]
  IN IF \E i \in DOMAIN st : st[i].command = c
     THEN [ i \in DOMAIN st |->
              IF st[i].command = c THEN [row EXCEPT !.id = st[i].id] ELSE st[i] ]
     ELSE Append(st, row)

\* save_solution: INSERT INTO solutions (...) VALUES (?, ?, ?, ?, ?, ?)
save_solution(st, now, c, s, suc, ver, err, fb) ==
  Append(st, [ id |-> NextId(st),
               command |-> c,
               applescript |-> s,
               success |-> SqlBool(suc),
               verified_success |-> SqlOptBool(ver),
               error_message |-> err,
               feedback |-> fb,
               timestamp |-> now ])

\* ------------------------------------------------------------------ Init
\* ScriptLearningAgent(enable_verification=args.verify) on a fresh database
InitLearning ==
  /\ schema = setup_database("absent", <<>>)[1]
  /\ store = setup_database("absent", <<>>)[2]
  /\ prompt = <<>>
  /\ printed = {}
  /\ turn = "start"
  /\ clock = 0
  /\ pc = "main_loop"
  /\ enable_verification \in BOOLEAN
  /\ command = <<>>
  /\ previous_solution = None
  /\ script = None
  /\ approval = <<>>
  /\ success = FALSE
  /\ error_message = None
  /\ verified_success = None
  /\ feedback = None
  /\ ret = None
  /\ typed = <<>>
  /\ trace = <<>>
  /\ store_at_start = <<>>

\* the store-less agent: main() of ai_script_agent_whisper.py is entered
InitWhisper ==
  /\ schema = "absent"
  /\ store = <<>>
  /\ prompt = <<>>
  /\ printed = {}
  /\ turn = "start"
  /\ clock = 0
  /\ pc = "w_main_loop"
  /\ enable_verification = FALSE
  /\ command = <<>>
  /\ previous_solution = None
  /\ script = None
  /\ approval = <<>>
  /\ success = FALSE
  /\ error_message = None
  /\ verified_success = None
  /\ feedback = None
  /\ ret = None
  /\ typed = <<>>
  /\ trace = <<>>
  /\ store_at_start = <<>>

\* ------------------------------------------------------------- actions
\* wall-clock time passes into the next second. Only the order and equality
\* of the timestamps is observable (ORDER BY timestamp), so the seconds in
\* which no row is written are not counted, nor the time after the last row
\* the log may hold.
Tick ==
  /\ store # <<>>
  /\ Len(store) < MaxAttempts
  /\ store[Len(store)].timestamp = clock
  /\ clock' = clock + 1
  /\ UNCHANGED << store, pc, enable_verification, locals, ret, typed, trace,
                  store_at_start, schema, prompt, printed, turn >>

\* main(): parse_args, ScriptLearningAgent(...) -> setup_database(); a new
\* process on the database file the previous one left behind
Start ==
  /\ pc \in {"exited", "crashed"}
  /\ \E verify \in BOOLEAN : enable_verification' = verify
  /\ schema' = setup_database(schema, store)[1]
  /\ store' = setup_database(schema, store)[2]
  /\ prompt' = <<>>
  /\ printed' = {}
  /\ turn' = "start"
  /\ pc' = "main_loop"
  /\ command' = <<>>
  /\ previous_solution' = None
  /\ script' = None
  /\ approval' = <<>>
  /\ success' = FALSE
  /\ error_message' = None
  /\ verified_success' = None
  /\ feedback' = None
  /\ ret' = None
  /\ typed' = <<>>
  /\ trace' = <<>>
  /\ store_at_start' = setup_database(schema, store)[2]
  /\ UNCHANGED clock

\* handle_command(c) is entered: nothing of the previous session is left
Enter(c) ==
  /\ Len(store) < MaxAttempts
  /\ command' = c
  /\ previous_solution' = None
  /\ script' = None
  /\ approval' = <<>>
  /\ success' = FALSE
  /\ error_message' = None
  /\ verified_success' = None
  /\ feedback' = None
  /\ ret' = None
  /\ typed' = <<>>
  /\ trace' = <<>>
  /\ store_at_start' = store
  /\ prompt' = <<>>
  /\ printed' = {}
  /\ turn' = "command"
  /\ pc' = "generate"

\* main() line 253-255: break; the process ends and its variables with it
Exit ==
  /\ pc' = "exited"
  /\ command' = <<>>
  /\ previous_solution' = None
  /\ script' = None
  /\ approval' = <<>>
  /\ success' = FALSE
  /\ error_message' = None
  /\ verified_success' = None
  /\ feedback' = None
  /\ ret' = None
  /\ typed' = <<>>
  /\ trace' = <<>>
  /\ store_at_start' = store
  /\ prompt' = <<>>
  /\ printed' = {"Exiting."}
  /\ turn' = "quit"

\* main(): a turn that ends in continue, having printed msgs
Skip(how, msgs) ==
  /\ Len(store) < MaxAttempts
  /\ UNCHANGED pc
  /\ command' = <<>>
  /\ previous_solution' = None
  /\ script' = None
  /\ approval' = <<>>
  /\ success' = FALSE
  /\ error_message' = None
  /\ verified_success' = None
  /\ feedback' = None
  /\ ret' = None
  /\ typed' = <<>>
  /\ trace' = <<>>
  /\ store_at_start' = store
  /\ prompt' = <<>>
  /\ printed' = msgs
  /\ turn' = how

\* main(): one turn of the while loop up to the call of handle_command
MainLoop ==
  /\ pc = "main_loop"
  /\ \E line \in ModeInputs :
       LET mode == Lower(Strip(line)) IN
       /\ CASE mode = <<"q", "u", "i", "t">> ->
                 Exit
            [] mode = <<"s", "p", "e", "a", "k">> ->
                 \E recorded \in BOOLEAN,
                    text \in {None} \cup {Some(c) : c \in Commands \cup {<<>>}} :
                   CASE ~recorded -> Skip("record_failed", {"Error recording audio"})
                     [] recorded /\ IsNone(text) ->
                          Skip("transcribe_failed", {"Error transcribing audio"})
                     [] recorded /\ text = Some(<<>>) ->
                          Skip("transcribe_empty", {})
                     [] OTHER -> Enter(Val(text))
            [] mode = <<"t", "y", "p", "e">> ->
                 \E c \in Commands : Enter(c)
            [] OTHER ->
                 Skip("invalid", {"Invalid option."})
  /\ UNCHANGED << store, clock, enable_verification, schema >>

\* handle_command: return r
Return(r) ==
  /\ ret' = Some(r)
  /\ pc' = "main_loop"

\* variant: script is None
NoScriptNoneOnly(s) == IsNone(s)

\* handle_command line 162: not script
NoScript(s) == IsNone(s) \/ Val(s) = <<>>

\* generate_applescript lines 80-114: the system message
SystemMessage ==
  [ role |-> "system", content |-> << "You are an expert AppleScript developer." >> ]

\* generate_applescript line 123: the request, ending in the command
RequestMessage(c) ==
  [ role |-> "user", content |-> << "Generate AppleScript code to: " >> \o c ]

\* generate_applescript lines 117-121: the example, when there is one
ExampleMessages(prev) ==
  IF ~IsNone(prev) /\ Val(prev) # <<>>
  THEN << [ role |-> "system",
            content |-> << "Here's a previously successful solution for reference:" >> ],
          [ role |-> "user", content |-> Val(prev) ] >>
  ELSE <<>>

\* variant: generate_applescript of v1, which has no example
BuildMessagesNoExample(c, prev) == << SystemMessage, RequestMessage(c) >>

\* generate_applescript lines 79-123: messages
BuildMessages(c, prev) ==
  << SystemMessage >> \o ExampleMessages(prev) \o << RequestMessage(c) >>

\* generate_applescript line 131: message.content.strip()
PostProcess(content) == Strip(content)

\* handle_command lines 161-166: generate_applescript(command), which first
\* reads the store and then calls the generation collaborator
GenerateApplescript ==
  /\ pc = "generate"
  /\ \/ \* the store cannot be read: the error leaves handle_command and main
        /\ pc' = "crashed"
        /\ trace' = trace \o <<"find_successful_solution">>
        /\ UNCHANGED << previous_solution, script, ret, prompt, printed >>
     \/ \* the statement is prepared: the table has the columns it names
        /\ HasColumns(schema)
        /\ \E prev \in find_successful_solution(store, command),
              response \in {None} \cup {Some(r) : r \in Responses} :
             LET generated == IF IsNone(response) THEN None
                              ELSE Some(PostProcess(Val(response))) IN
             /\ previous_solution' = prev
             /\ prompt' = BuildMessages(command, prev)
             /\ script' = generated
             /\ trace' = trace \o <<"find_successful_solution", "generate">>
             /\ IF NoScript(generated)
                THEN /\ Return(FALSE)
                     /\ printed' = IF IsNone(response)
                                   THEN {"Error generating AppleScript"}
                                   ELSE {}
                ELSE /\ pc' = "approve"
                     /\ printed' = {"Generated AppleScript"}
                     /\ UNCHANGED ret
  /\ UNCHANGED << store, clock, enable_verification, command, approval,
                  success, error_message, verified_success, feedback, typed,
                  store_at_start, schema, turn >>

\* variant: approval not in ["no", "n"]
ApprovedUnlessNo(a) == a \notin { <<"n", "o">>, <<"n">> }

\* handle_command line 169: approval in ["yes", "y"]
Approved(a) == a \in Affirmative

\* variant: a declined script is generated once more before giving up
ApproveOrRegenerate ==
  /\ pc = "approve"
  /\ \E line \in Answers :
       /\ typed' = line
       /\ approval' = Lower(Strip(line))
       /\ trace' = trace \o <<"approval_prompt">>
       /\ IF Approved(Lower(Strip(line)))
          THEN /\ pc' = "execute"
               /\ UNCHANGED ret
          ELSE IF Len(trace) < 3
          THEN /\ pc' = "generate"
               /\ UNCHANGED ret
          ELSE Return(FALSE)
  /\ UNCHANGED << store, clock, enable_verification, command,
                  previous_solution, script, success, error_message,
                  verified_success, feedback, store_at_start, schema, prompt,
                  printed, turn >>

\* handle_command lines 168-170: the approval prompt
Approve ==
  /\ pc = "approve"
  /\ \E line \in Answers :
       /\ typed' = line
       /\ approval' = Lower(Strip(line))
       /\ trace' = trace \o <<"approval_prompt">>
       /\ IF ~Approved(Lower(Strip(line)))
          THEN Return(FALSE)
          ELSE /\ pc' = "execute"
               /\ UNCHANGED ret
  /\ UNCHANGED << store, clock, enable_verification, command,
                  previous_solution, script, success, error_message,
                  verified_success, feedback, store_at_start, schema, prompt,
                  printed, turn >>

\* handle_command lines 186-192: the messages after the attempt is saved
ResultMessages(suc, ver) ==
  IF suc
  THEN {"Script executed successfully!"}
         \cup (IF ver = Some(FALSE)
               THEN {"But the result wasn't what you wanted.", "Feedback"}
               ELSE {})
  ELSE {"Execution failed"}

\* variant: return success and verified_success is not False
ReturnValueVerified(suc, ver) == suc /\ ver # Some(FALSE)

\* handle_command line 194: return success
ReturnValue(suc, ver) == suc

\* variant: the script is saved with its fence markers taken off
RecordedScriptUnfenced == Remove(Val(script), <<"fence">>)

\* handle_command line 184: the script argument of save_solution, the local
\* script that was shown and executed
RecordedScript == Val(script)

\* variant: only a successful execution is recorded
RecordOnlySuccess(suc, ver, err, fb, tr, pr) ==
  /\ store' = IF suc
              THEN save_solution(store, clock, command, Val(script), suc, ver, err, fb)
              ELSE store
  /\ trace' = IF suc THEN tr \o <<"save_solution">> ELSE tr
  /\ printed' = pr \cup ResultMessages(suc, ver)
  /\ Return(ReturnValue(suc, ver))

\* handle_command lines 184-194: save_solution(...), the messages, return
\* success; pr is what the turn has printed before
RecordAndReturn(suc, ver, err, fb, tr, pr) ==
  \/ /\ HasColumns(schema)
     /\ store' = save_solution(store, clock, command, RecordedScript, suc, ver, err, fb)
     /\ trace' = tr \o <<"save_solution">>
     /\ printed' = pr \cup ResultMessages(suc, ver)
     /\ Return(ReturnValue(suc, ver))
  \/ \* the store cannot be written: the error leaves handle_command and main
     /\ store' = store
     /\ trace' = tr \o <<"save_solution">>
     /\ printed' = pr
     /\ pc' = "crashed"
     /\ UNCHANGED ret

\* variant: the remediation is printed for every non-zero exit
PermissionHelpAlways(stderr) ==
  {"Permission required!"}

\* execute_applescript lines 149-154: the remediation, printed when stderr
\* has the signature
PermissionHelp(stderr) ==
  IF Contains(stderr, PermissionSignature) THEN {"Permission required!"} ELSE {}

\* variant: return result.returncode == 0, result.stderr
ExecOutcomesStderrAlways ==
  { << TRUE, Some(e), {} >> : e \in Stderrs }
    \cup { << FALSE, Some(e), PermissionHelp(e) >> : e \in Stderrs }
    \cup { << FALSE, Some(e), {} >> : e \in LaunchErrors }

\* execute_applescript(script): (returncode 0) | (non-zero, stderr) | exception,
\* each as success, error message and what was printed
ExecOutcomes ==
  { << TRUE, None, {} >> }
    \cup { << FALSE, Some(e), PermissionHelp(e) >> : e \in Stderrs }
    \cup { << FALSE, Some(e), {} >> : e \in LaunchErrors }

\* variant: self.enable_verification alone
AskWhenEnabled(suc, enabled) == enabled

\* handle_command line 177: success and self.enable_verification
AskConfirmation(suc, enabled) == suc /\ enabled

\* handle_command lines 172-177: run the script; without a confirmation to
\* ask for, go on to record the attempt
ExecuteApplescript ==
  /\ pc = "execute"
  /\ \E out \in ExecOutcomes :
       /\ success' = out[1]
       /\ error_message' = out[2]
       /\ verified_success' = None
       /\ feedback' = None
       /\ IF AskConfirmation(out[1], enable_verification)
          THEN /\ pc' = "verify"
               /\ trace' = trace \o <<"execute">>
               /\ printed' = printed \cup out[3]
                               \cup {"Script executed without errors."}
               /\ UNCHANGED << store, ret >>
          ELSE RecordAndReturn(out[1], None, out[2], None, trace \o <<"execute">>,
                               printed \cup out[3])
  /\ UNCHANGED << clock, enable_verification, command, previous_solution,
                  script, approval, typed, store_at_start, schema, prompt, turn >>

\* variant: verified not in ['no', 'n']
ConfirmedUnlessNo(verified) == verified \notin { <<"n", "o">>, <<"n">> }

\* handle_command line 180: verified in ['yes', 'y']
Confirmed(verified) == verified \in Affirmative

\* handle_command lines 178-181: the confirmation prompt
Verify ==
  /\ pc = "verify"
  /\ \E line \in Answers :
       LET verified == Lower(Strip(line)) IN
       /\ typed' = line
       /\ verified_success' = Some(Confirmed(verified))
       /\ IF Confirmed(verified)
          THEN RecordAndReturn(success, Some(TRUE), error_message, feedback,
                               trace \o <<"confirmation_prompt">>, printed)
          ELSE /\ pc' = "feedback"
               /\ trace' = trace \o <<"confirmation_prompt">>
               /\ UNCHANGED << store, ret, printed >>
  /\ UNCHANGED << clock, enable_verification, command, previous_solution,
                  script, approval, success, error_message, feedback,
                  store_at_start, schema, prompt, turn >>

\* variant: feedback = input(...)
FeedbackTextRaw(line) == Some(line)

\* variant: feedback = input(...).strip() or None
FeedbackTextOrNone(line) == IF Strip(line) = <<>> THEN None ELSE Some(Strip(line))

\* handle_command line 182: feedback = input(...).strip()
FeedbackText(line) == Some(Strip(line))

\* handle_command line 182: the feedback prompt
Feedback ==
  /\ pc = "feedback"
  /\ \E line \in FeedbackInputs :
       /\ typed' = line
       /\ feedback' = FeedbackText(line)
       /\ RecordAndReturn(success, verified_success, error_message,
                          FeedbackText(line), trace \o <<"feedback_prompt">>,
                          printed)
  /\ UNCHANGED << clock, enable_verification, command, previous_solution,
                  script, approval, success, error_message, verified_success,
                  store_at_start, schema, prompt, turn >>

\* ------------------------------------------- the store-less agent (v1)
\* a command was obtained: the loop body goes on to generate_applescript
W_Enter(c) ==
  /\ command' = c
  /\ script' = None
  /\ approval' = <<>>
  /\ success' = FALSE
  /\ error_message' = None
  /\ typed' = <<>>
  /\ trace' = <<>>
  /\ prompt' = <<>>
  /\ printed' = {}
  /\ turn' = "command"
  /\ pc' = "w_generate"

\* whisper main() lines 155-171: the mode prompt and the command
W_MainLoop ==
  /\ pc = "w_main_loop"
  /\ \E line \in ModeInputs :
       LET mode == Lower(Strip(line)) IN
       CASE mode = <<"q", "u", "i", "t">> ->
              Exit
         [] mode = <<"s", "p", "e", "a", "k">> ->
              \E recorded \in BOOLEAN,
                 text \in {None} \cup {Some(c) : c \in Commands \cup {<<>>}} :
                CASE ~recorded -> Skip("record_failed", {"Error recording audio"})
                  [] recorded /\ IsNone(text) ->
                       Skip("transcribe_failed", {"Error transcribing audio"})
                  [] recorded /\ text = Some(<<>>) ->
                       Skip("transcribe_empty", {})
                  [] OTHER ->
                       /\ W_Enter(Val(text))
                       /\ UNCHANGED << previous_solution, verified_success,
                                       feedback, ret, store_at_start >>
         [] mode = <<"t", "y", "p", "e">> ->
              /\ \E c \in Commands : W_Enter(c)
              /\ UNCHANGED << previous_solution, verified_success, feedback, ret,
                              store_at_start >>
         [] OTHER ->
              Skip("invalid", {"Invalid option."})
  /\ UNCHANGED << store, clock, enable_verification, schema >>

\* whisper generate_applescript lines 112-116: strip, drop the fence markers,
\* strip again
CleanResponse(content) ==
  Strip(Remove(Remove(Strip(content), <<"fence", "applescript">>), <<"fence">>))

\* whisper main() lines 174-176: generate_applescript(user_command)
W_GenerateApplescript ==
  /\ pc = "w_generate"
  /\ \E response \in {None} \cup {Some(r) : r \in Responses \cup FencedResponses} :
       LET code == IF IsNone(response) THEN None
                   ELSE Some(CleanResponse(Val(response))) IN
       /\ script' = code
       /\ trace' = trace \o <<"generate">>
       /\ pc' = IF NoScript(code) THEN "w_main_loop" ELSE "w_approve"
       /\ printed' = IF IsNone(response) THEN {"Error generating AppleScript"}
                     ELSE IF NoScript(code) THEN {}
                     ELSE {"Generated AppleScript"}
  /\ prompt' = << SystemMessage, [ role |-> "user",
                 content |-> << "Command: " >> \o command
                               \o << "AppleScript Code:" >> ] >>
  /\ UNCHANGED << store, clock, enable_verification, command,
                  previous_solution, approval, success, error_message,
                  verified_success, feedback, ret, typed, store_at_start,
                  schema, turn >>

\* whisper main() lines 181-186: the approval prompt
W_Approve ==
  /\ pc = "w_approve"
  /\ \E line \in Answers :
       /\ typed' = line
       /\ approval' = Lower(Strip(line))
       /\ trace' = trace \o <<"approval_prompt">>
       /\ pc' = IF Approved(Lower(Strip(line))) THEN "w_execute" ELSE "w_main_loop"
       /\ printed' = IF Approved(Lower(Strip(line))) THEN printed
                     ELSE printed \cup {"Execution cancelled."}
  /\ UNCHANGED << store, clock, enable_verification, command,
                  previous_solution, script, success, error_message,
                  verified_success, feedback, ret, store_at_start, schema,
                  prompt, turn >>

\* whisper main() line 184: execute_applescript(applescript_code)
W_ExecuteApplescript ==
  /\ pc = "w_execute"
  /\ \E out \in ExecOutcomes :
       /\ success' = out[1]
       /\ error_message' = out[2]
       /\ printed' = printed \cup
            (IF out[1] THEN {"Script executed successfully."}
             ELSE IF out[3] # {} THEN out[3]
             ELSE {"Error executing script"})
  /\ trace' = trace \o <<"execute">>
  /\ pc' = "w_main_loop"
  /\ UNCHANGED << store, clock, enable_verification, command,
                  previous_solution, script, approval, verified_success,
                  feedback, ret, typed, store_at_start, schema, prompt, turn >>

Init == InitLearning \/ InitWhisper

Next ==
  \/ Tick
  \/ Start
  \/ MainLoop
  \/ GenerateApplescript
  \/ Approve
  \/ ExecuteApplescript
  \/ Verify
  \/ Feedback
  \/ W_MainLoop
  \/ W_GenerateApplescript
  \/ W_Approve
  \/ W_ExecuteApplescript

Spec == Init /\ [][Next]_vars

\* the generation collaborator, the human at the prompts and osascript all
\* answer: a session step that is possible is eventually taken
Responsive ==
  /\ WF_vars(GenerateApplescript)
  /\ WF_vars(Approve)
  /\ WF_vars(ExecuteApplescript)
  /\ WF_vars(Verify)
  /\ WF_vars(Feedback)

\* one process of the v2 agent, from main() to its end
NextProcess ==
  \/ Tick
  \/ MainLoop
  \/ GenerateApplescript
  \/ Approve
  \/ ExecuteApplescript
  \/ Verify
  \/ Feedback

FairSpec == InitLearning /\ [][NextProcess]_vars /\ Responsive

\* ------------------------------------------- the learning agent of v1
\* v1 setup_database: CREATE TABLE IF NOT EXISTS solutions (id, command,
\* applescript, success, error_message, timestamp)
V1_setup_database(sch, st) ==
  IF sch = "absent" THEN << "v1", <<>> >> ELSE << sch, st >>

\* v1 find_successful_solution: WHERE command = ? AND success = 1
V1_Where(row, c) ==
  /\ row.command = c
  /\ row.success = 1

\* v1 find_successful_solution: ORDER BY timestamp DESC LIMIT 1, and
\* result[0] if result else None
V1_find_successful_solution(st, c) ==
  LET first == { i \in DOMAIN st :
                   /\ V1_Where(st[i], c)
                   /\ \A j \in DOMAIN st :
                        V1_Where(st[j], c) => st[j].timestamp <= st[i].timestamp }
  IN IF first = {} THEN { None }
     ELSE { Some(st[i].applescript) : i \in first }

\* v1 save_solution: INSERT INTO solutions (command, applescript, success,
\* error_message) VALUES (?, ?, ?, ?)
V1_save_solution(st, now, c, s, suc, err) ==
  Append(st, [ id |-> NextId(st),
               command |-> c,
               applescript |-> s,
               success |-> SqlBool(suc),
               error_message |-> err,
               timestamp |-> now ])

\* v1 main(): ScriptLearningAgent() on a fresh database
InitV1 ==
  /\ schema = V1_setup_database("absent", <<>>)[1]
  /\ store = V1_setup_database("absent", <<>>)[2]
  /\ prompt = <<>>
  /\ printed = {}
  /\ turn = "start"
  /\ clock = 0
  /\ pc = "main_loop"
  /\ enable_verification = FALSE
  /\ command = <<>>
  /\ previous_solution = None
  /\ script = None
  /\ approval = <<>>
  /\ success = FALSE
  /\ error_message = None
  /\ verified_success = None
  /\ feedback = None
  /\ ret = None
  /\ typed = <<>>
  /\ trace = <<>>
  /\ store_at_start = <<>>

\* v1 main(): ScriptLearningAgent() -> setup_database(); a new process on
\* the database file the previous one left behind
V1_Start ==
  /\ pc \in {"exited", "crashed"}
  /\ schema' = V1_setup_database(schema, store)[1]
  /\ store' = V1_setup_database(schema, store)[2]
  /\ store_at_start' = V1_setup_database(schema, store)[2]
  /\ prompt' = <<>>
  /\ printed' = {}
  /\ turn' = "start"
  /\ pc' = "main_loop"
  /\ command' = <<>>
  /\ previous_solution' = None
  /\ script' = None
  /\ approval' = <<>>
  /\ success' = FALSE
  /\ error_message' = None
  /\ verified_success' = None
  /\ feedback' = None
  /\ ret' = None
  /\ typed' = <<>>
  /\ trace' = <<>>
  /\ UNCHANGED << clock, enable_verification >>

\* v1 generate_applescript lines 68-105: messages, the system message and
\* the request
V1_BuildMessages(c) == << SystemMessage, RequestMessage(c) >>

\* v1 handle_command lines 143-148: generate_applescript(command), which
\* calls the generation collaborator
V1_GenerateApplescript ==
  /\ pc = "generate"
  /\ \E response \in {None} \cup {Some(r) : r \in Responses} :
       LET generated == IF IsNone(response) THEN None
                        ELSE Some(Strip(Val(response))) IN
       /\ prompt' = V1_BuildMessages(command)
       /\ script' = generated
       /\ trace' = trace \o <<"generate">>
       /\ IF NoScript(generated)
          THEN /\ Return(FALSE)
               /\ printed' = IF IsNone(response)
                             THEN {"Error generating AppleScript"}
                             ELSE {}
          ELSE /\ pc' = "approve"
               /\ printed' = {"Generated AppleScript"}
               /\ UNCHANGED ret
  /\ UNCHANGED << store, clock, enable_verification, command,
                  previous_solution, approval, success, error_message,
                  verified_success, feedback, typed, store_at_start, schema,
                  turn >>

\* v1 handle_command lines 154-162: execute_applescript(script),
\* save_solution(...), the message, return success
V1_ExecuteApplescript ==
  /\ pc = "execute"
  /\ \E out \in ExecOutcomes :
       /\ success' = out[1]
       /\ error_message' = out[2]
       /\ \/ /\ store' = V1_save_solution(store, clock, command, Val(script),
                                          out[1], out[2])
             /\ printed' = printed \cup out[3] \cup ResultMessages(out[1], None)
             /\ Return(out[1])
          \/ \* the store cannot be written: the error leaves handle_command
             \* and main
             /\ store' = store
             /\ printed' = printed \cup out[3]
             /\ pc' = "crashed"
             /\ UNCHANGED ret
  /\ trace' = trace \o <<"execute", "save_solution">>
  /\ UNCHANGED << clock, enable_verification, command, previous_solution,
                  script, approval, verified_success, feedback, typed,
                  store_at_start, schema, prompt, turn >>

\* the v1 process; main() and the approval prompt of v1 are those of v2
NextV1 ==
  \/ Tick
  \/ V1_Start
  \/ MainLoop
  \/ V1_GenerateApplescript
  \/ Approve
  \/ V1_ExecuteApplescript

SpecV1 == InitV1 /\ [][NextV1]_vars

\* ------------------------- the v2 agent on the database v1 left behind
\* the scripts a v1 session can have saved: stripped, not empty
V1_Scripts == { Strip(r) : r \in Responses } \ { <<>> }

\* script_solutions.db as a v1 process leaves it: the table of v1, empty
\* or with the row of its first executed session
V1_Databases ==
  { <<>> } \cup
  { V1_save_solution(<<>>, 0, c, s, out[1], out[2]) :
      c \in Commands, s \in V1_Scripts, out \in ExecOutcomes }

\* the v1 process has ended by quit; both programs use the same default
\* db_path, so the v2 process that starts next opens this file
InitUpgrade ==
  /\ schema = "v1"
  /\ store \in V1_Databases
  /\ prompt = <<>>
  /\ printed = {"Exiting."}
  /\ turn = "quit"
  /\ clock = 0
  /\ pc = "exited"
  /\ enable_verification = FALSE
  /\ command = <<>>
  /\ previous_solution = None
  /\ script = None
  /\ approval = <<>>
  /\ success = FALSE
  /\ error_message = None
  /\ verified_success = None
  /\ feedback = None
  /\ ret = None
  /\ typed = <<>>
  /\ trace = <<>>
  /\ store_at_start = <<>>

\* the v2 process on that file; no session gets past generate_applescript,
\* so the later steps of handle_command have no part in it
NextUpgrade ==
  \/ Tick
  \/ Start
  \/ MainLoop
  \/ GenerateApplescript

SpecUpgrade == InitUpgrade /\ [][NextUpgrade]_vars

\* ---------------------------------------------------------- properties
Last(seq) == seq[Len(seq)]
Range(seq) == { seq[i] : i \in DOMAIN seq }
Count(seq, x) == Cardinality({ i \in DOMAIN seq : seq[i] = x })

\* the command texts retrieval is asked about: the ones that get stored and
\* two that never are
Probes == Commands \cup { <<"a", " ">>, <<>> }

\* the running process is the learning agent, not the store-less one
LearningAgent == pc \notin {"w_main_loop", "w_generate", "w_approve", "w_execute"}

\* the session has no script to run: generation failed or gave an empty text
Scriptless == script = None \/ script = Some(<<>>)

\* the last handle_command has returned and nothing was started since
Returned == pc = "main_loop" /\ ret # None

\* the rows a retrieval for c may use: exact command, success, and
\* verified_success true or unknown
Qualifying(c) ==
  { i \in DOMAIN store :
      /\ store[i].command = c
      /\ store[i].success = 1
      /\ store[i].verified_success # Some(0) }

\* the store is the session's starting store plus exactly one row
OneAttemptRecorded ==
  /\ Len(store) = Len(store_at_start) + 1
  /\ SubSeq(store, 1, Len(store_at_start)) = store_at_start
  /\ Count(trace, "save_solution") = 1

C2_LastAppendedIsReturned ==
  \A c \in Probes :
    Qualifying(c) # {} =>
      LET newest == CHOOSE i \in Qualifying(c) :
                      \A j \in Qualifying(c) : store[j].id <= store[i].id
      IN find_successful_solution(store, c) = { Some(store[newest].applescript) }

\* the session just returned is one in which the confirmation was answered
\* negatively and feedback was typed
AnsweredNo ==
  /\ Returned
  /\ enable_verification
  /\ success
  /\ verified_success = Some(FALSE)
  /\ Last(trace) = "save_solution"
  /\ "feedback_prompt" \in Range(trace)

\* a verified-failed attempt is never the one retrieval selects
VerifiedFailedNeverSelected ==
  \A i \in DOMAIN store :
    store[i].verified_success = Some(0) =>
      \A c \in Probes : i \notin Selected(store, c)

\* C3 as stated: with verification enabled, execution succeeding and the
\* confirmation answered negatively with feedback text f, exactly one attempt
\* is recorded, with success true, verified_success false and feedback = f;
\* no later retrieval selects it.
C3_FeedbackStoredAsTyped ==
  /\ AnsweredNo =>
       /\ OneAttemptRecorded
       /\ Last(store).command = command
       /\ Last(store).success = 1
       /\ Last(store).verified_success = Some(0)
       /\ Last(store).feedback = Some(typed)
  /\ VerifiedFailedNeverSelected

\* C3 amended: the same, with feedback = f stripped of surrounding whitespace.
C3_FeedbackStoredStripped ==
  /\ AnsweredNo =>
       /\ OneAttemptRecorded
       /\ Last(store).command = command
       /\ Last(store).success = 1
       /\ Last(store).verified_success = Some(0)
       /\ Last(store).feedback = Some(Strip(typed))
  /\ VerifiedFailedNeverSelected

\* C3 witness: a negatively confirmed attempt with typed feedback " w " was
\* recorded, and a later reusable attempt for the same command exists.
C3_Witness ==
  /\ AnsweredNo
  /\ typed = <<" ", "w", " ">>
  /\ Last(store).feedback = Some(<<"w">>)
  /\ Len(store) = 2
  /\ store[1].command = command
  /\ 1 \in Qualifying(command)

\* C4: the log is append-only: every step leaves every stored attempt in
\* place with all its fields unchanged.
C4_AppendOnly ==
  [][ /\ Len(store') >= Len(store)
      /\ \A i \in DOMAIN store : store'[i] = store[i] ]_vars

\* C4 witness: a second attempt for a command was appended after a restart
\* of the process, and the first is still there.
C4_Witness ==
  /\ Returned
  /\ Len(store) = 2
  /\ Len(store_at_start) = 1
  /\ store[1].command = store[2].command
  /\ store[1].id = 1 /\ store[2].id = 2

\* C5 as stated: every session in which generation produced a script records
\* exactly one attempt before it returns.
C5_GeneratedImpliesRecorded ==
  (Returned /\ ~Scriptless) => OneAttemptRecorded

\* C5 amended: every session in which generation produced a script and the
\* human approved its execution records exactly one attempt before it
\* returns, whatever the execution outcome and the confirmation answer.
C5_ExecutedImpliesRecorded ==
  (Returned /\ "execute" \in Range(trace)) => OneAttemptRecorded

\* C5 witness: a session whose execution failed has returned with its one
\* attempt recorded.
C5_Witness ==
  /\ Returned
  /\ "execute" \in Range(trace)
  /\ ~success
  /\ ret = Some(FALSE)
  /\ OneAttemptRecorded

\* C6: when generation fails or yields an empty script, or the approval
\* answer is not 'yes'/'y' after trimming and lower-casing, handle_command
\* returns False and the store is as it was at the start of the session.
C6_AbortWritesNothing ==
  /\ (LearningAgent /\ trace # <<>> /\ Last(trace) = "generate" /\ Scriptless) =>
       /\ Returned /\ ret = Some(FALSE)
       /\ store = store_at_start
  /\ (LearningAgent /\ trace # <<>> /\ Last(trace) = "approval_prompt"
        /\ Lower(Strip(typed)) \notin Affirmative) =>
       /\ Returned /\ ret = Some(FALSE)
       /\ store = store_at_start

\* C6 witness: with one attempt already stored, a session was declined with
\* an empty answer.
C6_Witness ==
  /\ Returned
  /\ Last(trace) = "approval_prompt"
  /\ typed = <<>>
  /\ Len(store) = 1
  /\ store = store_at_start

\* C6 witness of the generation side: the collaborator returned blanks only.
C6_WitnessEmptyScript ==
  /\ Returned
  /\ Last(trace) = "generate"
  /\ script = Some(<<>>)

\* C7: the execution collaborator is invoked only after a script was
\* generated and affirmatively approved, never after a failed generation or
\* a declined approval, and at most once in a session.
C7_ExecuteOnlyAfterApproval ==
  /\ Count(trace, "execute") <= 1
  /\ \A i \in DOMAIN trace :
       trace[i] = "execute" =>
         /\ i > 2
         /\ trace[i - 2] = "generate"
         /\ trace[i - 1] = "approval_prompt"
         /\ ~Scriptless
         /\ approval \in Affirmative
  /\ pc \in {"execute", "w_execute"} =>
       /\ ~Scriptless
       /\ approval \in Affirmative
       /\ Lower(Strip(typed)) = approval
       /\ "execute" \notin Range(trace)
  /\ (Scriptless \/ approval \notin Affirmative) =>
       "execute" \notin Range(trace)

\* C7 witness: the learning agent executed the script after the answer
\* " YES ".
C7_Witness ==
  /\ pc = "main_loop"
  /\ trace = <<"find_successful_solution", "generate", "approval_prompt",
               "execute", "save_solution">>
  /\ typed = <<" ", "Y", "E", "S", " ">>
  /\ approval = <<"y", "e", "s">>

\* C8: every stored attempt has error_message set iff its success is false.
C8_ErrorMessageIffFailed ==
  \A i \in DOMAIN store :
    store[i].error_message # None <=> store[i].success = 0

\* C8 witness: a non-zero exit with empty stderr and a launch exception are
\* both in the store.
C8_Witness ==
  /\ Len(store) = 2
  /\ store[1].success = 0 /\ store[1].error_message = Some(<<>>)
  /\ store[2].success = 0 /\ store[2].error_message = Some(<<"x">>)

\* C9: every stored attempt has feedback set iff its verified_success is
\* false.
C9_FeedbackIffVerifiedFalse ==
  \A i \in DOMAIN store :
    store[i].feedback # None <=> store[i].verified_success = Some(0)

\* C9 witness: a verified-failed attempt with empty feedback text, and a
\* verified-true attempt without feedback.
C9_Witness ==
  /\ Len(store) = 2
  /\ store[1].verified_success = Some(0) /\ store[1].feedback = Some(<<>>)
  /\ store[2].verified_success = Some(1) /\ store[2].feedback = None

\* C10: when execution fails or verification is disabled, no confirmation is
\* asked for and the attempt is recorded with verified_success unknown; every
\* stored attempt with a known verified_success has success true and is
\* written by an agent with verification enabled.
C10_UnknownUnlessConfirmed ==
  /\ ("execute" \in Range(trace) /\ (~success \/ ~enable_verification)) =>
       /\ "confirmation_prompt" \notin Range(trace)
       /\ pc # "verify" /\ pc # "feedback"
       /\ verified_success = None
       /\ Returned => /\ OneAttemptRecorded
                      /\ Last(store).verified_success = None
  /\ (Returned /\ Last(trace) = "save_solution"
        /\ Last(store).verified_success # None) =>
       /\ enable_verification
       /\ "confirmation_prompt" \in Range(trace)
       /\ Last(store).success = 1
  /\ \A i \in DOMAIN store :
       store[i].verified_success # None => store[i].success = 1

\* C10 witness: verification is enabled, the execution failed, and the
\* attempt went into a store that holds a confirmed one.
C10_Witness ==
  /\ Returned
  /\ enable_verification
  /\ ~success
  /\ Len(store) = 2
  /\ store[1].verified_success = Some(1)
  /\ store[2].success = 0 /\ store[2].verified_success = None

\* the process has ended: by quit or by an error that left main
Ended == pc \in {"exited", "crashed"}

\* C11: the interactive loop ends only by the quit mode; no failure of a
\* command (generation, execution, recording, transcription, reading or
\* writing the store) ends the process.
C11_LoopEndsOnlyByQuit == Ended => turn = "quit"

\* the messages that tell the human something went wrong
FailureMessages ==
  { "Error recording audio", "Error transcribing audio",
    "Error generating AppleScript", "Execution failed",
    "Error executing script", "Permission required!" }

\* the turn that just ended at the mode prompt was a failed one: no text
\* from the microphone, no script from generation, or a failed execution
FailedTurn ==
  \/ turn \in {"record_failed", "transcribe_failed", "transcribe_empty"}
  \/ /\ turn = "command"
     /\ trace # <<>>
     /\ \/ Last(trace) = "generate" /\ Scriptless
        \/ "execute" \in Range(trace) /\ ~success

\* C12: when a failed turn hands control back to the mode prompt, a message
\* about the failure has been printed during that turn.
C12_FailureIsReported ==
  (pc \in {"main_loop", "w_main_loop"} /\ FailedTurn) =>
    printed \cap FailureMessages # {}

\* C13: setup_database on a database that has the table changes neither the
\* schema nor any stored attempt, and setting up twice gives what setting up
\* once gives, from every reachable database.
C13_SetupDatabaseKeepsData ==
  LET once == setup_database(schema, store)
      twice == setup_database(once[1], once[2]) IN
  /\ schema # "absent" => once = << schema, store >>
  /\ twice = once

\* C13 witness: a process has just started on a database that already holds
\* attempts, and setup_database has run on it.
C13_Witness ==
  /\ turn = "start"
  /\ pc = "main_loop"
  /\ schema = "v2"
  /\ Len(store) >= 1
  /\ store_at_start = store

\* generation has been asked for a script in this session of the learning
\* agent
PromptSent == LearningAgent /\ "generate" \in Range(trace)

\* the two messages that present the script s as an example
ExampleOf(s) ==
  << [ role |-> "system",
       content |-> << "Here's a previously successful solution for reference:" >> ],
     [ role |-> "user", content |-> s ] >>

C14_WitnessNoHint ==
  /\ PromptSent
  /\ previous_solution = None
  /\ Len(store_at_start) = 1
  /\ store_at_start[1].success = 1
  /\ Len(prompt) = 2

\* C15: handle_command returns True exactly when the script was executed and
\* the execution reported success, whatever the human answered at the
\* confirmation; it returns False when execution failed and when the session
\* ended before execution.
C15_ReturnsExecutionOutcome ==
  Returned =>
    /\ ret = Some(TRUE) <=> ("execute" \in Range(trace) /\ success)
    /\ ret = Some(FALSE) <=> ("execute" \notin Range(trace) \/ ~success)
    /\ "feedback_prompt" \in Range(trace) => ret = Some(TRUE)

\* C15 witness: a session recorded with verified_success false has returned
\* True.
C15_Witness ==
  /\ Returned
  /\ ret = Some(TRUE)
  /\ "feedback_prompt" \in Range(trace)
  /\ Last(store).verified_success = Some(0)

\* C15 witness: a session whose execution failed has returned False.
C15_WitnessFailed ==
  /\ Returned
  /\ ret = Some(FALSE)
  /\ "execute" \in Range(trace)
  /\ Last(store).success = 0

\* the executed script failed with the permission signature in its error text
PermissionDenied ==
  /\ "execute" \in Range(trace)
  /\ ~success
  /\ error_message # None
  /\ Contains(Val(error_message), PermissionSignature)

\* C16: the permission remediation is printed exactly in the sessions whose
\* execution failed with the signature in stderr, and such a session, when it
\* returns, has recorded one attempt with success false and that stderr as
\* error_message.
C16_PermissionHelpIffSignature ==
  /\ "Permission required!" \in printed <=> PermissionDenied
  /\ (PermissionDenied /\ Returned) =>
       /\ OneAttemptRecorded
       /\ Last(store).success = 0
       /\ Last(store).error_message = error_message
       /\ Last(store).command = command
       /\ "Execution failed" \in printed

\* C16 witness: a session whose execution failed on the missing permission
\* has returned, with the remediation printed and the attempt recorded.
C16_Witness ==
  /\ Returned
  /\ PermissionDenied
  /\ "Permission required!" \in printed
  /\ Last(store).success = 0
  /\ Last(store).error_message
       = Some(<< "Not authorised to send Apple events", "\n" >>)

\* C16 witness: a session whose execution failed in another way has returned
\* with no remediation printed.
C16_WitnessOtherFailure ==
  /\ Returned
  /\ "execute" \in Range(trace)
  /\ ~success
  /\ ~PermissionDenied
  /\ "Permission required!" \notin printed

\* the text has a code-fence marker in it
Fenced(text) == "fence" \in Range(text)

\* C17: the script handed to the executor, and every script in the store, has
\* no code-fence marker on it and no whitespace around it.
C17_NoFenceReachesExecutorOrStore ==
  /\ pc \in {"execute", "w_execute"} =>
       /\ ~Fenced(Val(script))
       /\ Strip(Val(script)) = Val(script)
  /\ \A i \in DOMAIN store :
       /\ ~Fenced(store[i].applescript)
       /\ Strip(store[i].applescript) = store[i].applescript

\* the confirmation prompt has been answered in this session
ConfirmationAnswered == "confirmation_prompt" \in Range(trace)

\* C18: the confirmation prompt is reached exactly when the execution
\* succeeded and verification is enabled; an answer that is yes or y after
\* trimming and lower-casing records verified_success true, any other answer
\* leads to the feedback prompt and records verified_success false; an attempt
\* recorded after the prompt never has verified_success unknown.
C18_VerificationGate ==
  /\ (LearningAgent /\ "execute" \in Range(trace)) =>
       ((success /\ enable_verification)
          <=> (pc = "verify" \/ ConfirmationAnswered))
  /\ (pc = "verify" \/ ConfirmationAnswered) => "execute" \in Range(trace)
  /\ pc = "feedback" =>
       /\ Lower(Strip(typed)) \notin Affirmative
       /\ verified_success = Some(FALSE)
       /\ Last(trace) = "confirmation_prompt"
  /\ (Returned /\ ConfirmationAnswered) =>
       /\ OneAttemptRecorded
       /\ Last(store).verified_success \in {Some(0), Some(1)}
       /\ Last(store).verified_success = Some(0)
            <=> "feedback_prompt" \in Range(trace)
       /\ Last(store).verified_success = Some(1)
            <=> Lower(Strip(typed)) \in Affirmative
                  /\ "feedback_prompt" \notin Range(trace)

\* C18 witness: the answer " YES " at the confirmation prompt has recorded the
\* attempt with verified_success true, without a feedback prompt.
C18_Witness ==
  /\ Returned
  /\ ConfirmationAnswered
  /\ "feedback_prompt" \notin Range(trace)
  /\ typed = <<" ", "Y", "E", "S", " ">>
  /\ Last(store).verified_success = Some(1)
  /\ Last(store).feedback = None

\* C18 witness: the empty answer at the confirmation prompt has led to the
\* feedback prompt.
C18_WitnessEmptyAnswer ==
  /\ pc = "feedback"
  /\ typed = <<>>
  /\ verified_success = Some(FALSE)

\* C20: a script recorded as verified-failed for a command is never what
\* find_successful_solution returns for that command afterwards, whatever
\* other attempts the store has for it.
C20_RejectedScriptNeverHinted ==
  \A i \in DOMAIN store :
    store[i].verified_success = Some(0) =>
      Some(store[i].applescript)
        \notin find_successful_solution(store, store[i].command)

\* the v1 store the session started on has a successful attempt for the
\* session's command
V1_HasPastSolution ==
  \E i \in DOMAIN store_at_start : V1_Where(store_at_start[i], command)

\* C19: in v1, when the store has a successful attempt for the command, the
\* session retrieves it with find_successful_solution before generating, and
\* the prompt sent to the generation collaborator has the stored script in it.
C19_V1PromptUsesPastSolution ==
  ("generate" \in Range(trace) /\ V1_HasPastSolution) =>
    /\ "find_successful_solution" \in Range(trace)
    /\ \E r \in V1_find_successful_solution(store_at_start, command) :
         \E k \in DOMAIN prompt : prompt[k].content = Val(r)

\* a learning-agent process is running: its setup_database has returned
Running ==
  pc \in {"main_loop", "generate", "approve", "execute", "verify", "feedback"}

\* C21: once setup_database of the v2 agent has returned, the table has the
\* columns that find_successful_solution and save_solution name, whatever
\* database file the process found, so neither raises a storage error for
\* want of a column.
C21_SetupEnsuresSchema == Running => HasColumns(schema)

\* the session has its script: it is at the approval prompt, where the
\* script is displayed, or past it
ScriptShown == pc \in {"approve", "execute", "verify", "feedback"}

\* C22: from the approval prompt on, no step of the session changes the
\* script or the command; the execution's success and error message are
\* kept through the confirmation and feedback prompts; and the row a step
\* appends has that command, that script, and the success and error message
\* of the session's execution.
C22_ScriptFixedAndRecorded ==
  [][ /\ ScriptShown => (script' = script /\ command' = command)
      /\ pc \in {"verify", "feedback"} =>
           (success' = success /\ error_message' = error_message)
      /\ (ScriptShown /\ store' # store) =>
           /\ pc' = "main_loop"
           /\ Len(store') = Len(store) + 1
           /\ Last(store').command = command
           /\ Last(store').applescript = Val(script)
           /\ Last(store').success = SqlBool(success')
           /\ Last(store').error_message = error_message'
    ]_vars

\* C22 witness: a session for "A" whose script came back inside fence
\* markers was approved, failed at launch, and has recorded that command,
\* that script and that error.
C22_Witness ==
  /\ Returned
  /\ Last(trace) = "save_solution"
  /\ command = <<"A">>
  /\ script = Some(<<"fence", "t", "fence">>)
  /\ ~success
  /\ error_message = Some(<<"x">>)
  /\ Last(store).command = command
  /\ Last(store).applescript = Val(script)
  /\ Last(store).success = 0
  /\ Last(store).error_message = error_message

\* handle_command is running
InSession == pc \in {"generate", "approve", "execute", "verify", "feedback"}

\* the session is over: handle_command has returned to main, or a storage
\* error has left it
SessionOver == pc \in {"main_loop", "crashed"}

\* what one session has done so far is a prefix of one pass through
\* handle_command: each step at most once and in this order
OnePass ==
  /\ Count(trace, "find_successful_solution") <= 1
  /\ Count(trace, "generate") <= 1
  /\ Count(trace, "approval_prompt") <= 1
  /\ Count(trace, "execute") <= 1
  /\ Count(trace, "confirmation_prompt") <= 1
  /\ Count(trace, "feedback_prompt") <= 1
  /\ Count(trace, "save_solution") <= 1
  /\ Len(store) <= Len(store_at_start) + 1

\* C23: with collaborators and human responding, every started
\* handle_command comes to its end, having made at most one retrieval, one
\* generation call, one execution call and one append; and a session starts
\* only at the mode prompt, when no session is running.
C23_SessionsSequentialAndEnd ==
  /\ [](LearningAgent => OnePass)
  /\ [][ (pc' = "generate" /\ pc # "generate") =>
           (pc = "main_loop" /\ ~InSession /\ trace' = <<>>) ]_vars
  /\ (InSession ~> SessionOver)

\* C23 witness: a session that went through every step of handle_command,
\* each once, has returned.
C23_Witness ==
  /\ Returned
  /\ trace = << "find_successful_solution", "generate", "approval_prompt",
                "execute", "confirmation_prompt", "feedback_prompt",
                "save_solution" >>
  /\ Len(store) = Len(store_at_start) + 1
====
